---- MODULE Spec2Model ----
(***************************************************************************)
(* Model of tasks.py: the selector resolvers, the build-directory layout,  *)
(* the build / push / push_multiarch orchestration and the release         *)
(* sequence.  Every external command (invoke's run) is one step that       *)
(* either succeeds or raises UnexpectedExit; the commands issued are       *)
(* recorded, in order, in log.                                             *)
(***************************************************************************)
EXTENDS Integers, Sequences, FiniteSets, TLC

VARIABLES
    task,        \* the task named on the command line
    pc,          \* control position of the innermost active function
    buildF,      \* locals of build (binaries, architectures, tag, ...)
    pushF,       \* locals of push
    multiF,      \* locals of push_multiarch
    relF,        \* locals of release
    log,         \* external commands issued so far, in order
    layoutRuns,  \* Len(log) at each call of _make_build_dirs
    dirs,        \* the build tree: path -> mode, or Absent
    umask,       \* the process umask
    repo,        \* the git checkout the commands act on
    printed,     \* lines written by print()
    artifacts,   \* compiled files, local images, registry tags, manifests
    sel,         \* the selectors as typed: for a resolver called on its own
                 \* its name and token list, for a build its two lists
    ret          \* what a resolver called on its own gave back

vars == <<task, pc, buildF, pushF, multiF, relF, log, layoutRuns, dirs,
          umask, repo, printed, artifacts, sel, ret>>

----------------------------------------------------------------------------
(* Bounds *)

\* most tokens handed to one resolver call on its own
MaxTokens == 3
\* most selector tokens (binaries plus architectures) on one command line
MaxArgs == 3
\* largest single-digit version number given to release
MaxVersionNum == 2

----------------------------------------------------------------------------
(* Known enumerations, tasks.py lines 15-23 *)

all_binaries ==
    {"controller-pool", "controller-acnodal", "speaker-acnodal", "speaker-local"}

all_architectures == {"amd64", "arm", "arm64", "ppc64le", "s390x"}

\* tokens a user may type: the known names, the wildcard and a name that
\* is in neither enumeration
BinaryTokens == all_binaries \cup {"all", "speaker"}
ArchTokens == all_architectures \cup {"all", "mips"}

----------------------------------------------------------------------------
(* sorted(): Python orders str by code point.  StrOrder lists the known    *)
(* names in that order; sorted builds the list smallest first.             *)

StrOrder ==
    <<"amd64", "arm", "arm64", "controller-acnodal", "controller-pool",
      "ppc64le", "s390x", "speaker-acnodal", "speaker-local">>

StrRank(s) == CHOOSE i \in 1..Len(StrOrder) : StrOrder[i] = s

StrLess(a, b) == StrRank(a) < StrRank(b)

\* list(out) without sorted(): the elements in some order of the set
RECURSIVE unsorted(_)
unsorted(S) ==
    IF S = {} THEN <<>>
    ELSE LET m == CHOOSE x \in S : \A y \in S \ {x} : StrLess(y, x)
         IN  <<m>> \o unsorted(S \ {m})

RECURSIVE sorted(_)
sorted(S) ==
    IF S = {} THEN <<>>
    ELSE LET m == CHOOSE x \in S : \A y \in S \ {x} : StrLess(x, y)
         IN  <<m>> \o sorted(S \ {m})

\* ", ".join(seq)
RECURSIVE CommaJoin(_)
CommaJoin(seq) ==
    IF Len(seq) = 0 THEN ""
    ELSE IF Len(seq) = 1 THEN seq[1]
    ELSE seq[1] \o ", " \o CommaJoin(Tail(seq))

----------------------------------------------------------------------------
(* Selector resolvers.  Each gives [exit |-> FALSE, value |-> list] when   *)
(* it returns and [exit |-> TRUE, code |-> 1, printed |-> lines] when it   *)
(* ends the process with sys.exit(1).                                      *)

\* the loop without the unknown-token branch: an unknown name is passed over
RECURSIVE ArchLoopSkipUnknown(_, _, _)
ArchLoopSkipUnknown(architectures, i, out) ==
    IF i > Len(architectures) THEN [exit |-> FALSE, out |-> out]
    ELSE LET arch == architectures[i] IN
         IF arch = "all"
         THEN ArchLoopSkipUnknown(architectures, i + 1, out \cup all_architectures)
         ELSE IF arch \notin all_architectures
         THEN ArchLoopSkipUnknown(architectures, i + 1, out)
         ELSE ArchLoopSkipUnknown(architectures, i + 1, out \cup {arch})

RECURSIVE ArchLoop(_, _, _)
ArchLoop(architectures, i, out) ==
    IF i > Len(architectures) THEN [exit |-> FALSE, out |-> out]
    ELSE LET arch == architectures[i] IN
         IF arch = "all" THEN ArchLoop(architectures, i + 1, out \cup all_architectures)
         ELSE IF arch \notin all_architectures THEN
              [exit |-> TRUE, code |-> 1,
               printed |-> <<"unknown architecture " \o arch,
                             "Supported architectures: "
                                 \o CommaJoin(sorted(all_architectures))>>]
         ELSE ArchLoop(architectures, i + 1, out \cup {arch})

\* the fallback of the binary resolver used for architectures
ArchDefaultAll(out) == IF out = {} THEN out \cup all_architectures ELSE out

ArchDefault(out) == IF out = {} THEN out \cup {"amd64"} ELSE out

_check_architectures(architectures) ==
    LET r == ArchLoop(architectures, 1, {}) IN
    IF r.exit THEN r
    ELSE [exit |-> FALSE, value |-> sorted(ArchDefault(r.out))]

\* the loop with "all" assigned instead of merged: out = all_binaries only
\* when "all" comes last, since later names replace the set
RECURSIVE BinLoopAllDropped(_, _, _)
BinLoopAllDropped(binaries, i, out) ==
    IF i > Len(binaries) THEN [exit |-> FALSE, out |-> out]
    ELSE LET binary == binaries[i] IN
         IF binary = "all" THEN BinLoopAllDropped(binaries, i + 1, all_binaries)
         ELSE IF binary \notin all_binaries THEN
              [exit |-> TRUE, code |-> 1,
               printed |-> <<"Unknown binary " \o binary,
                             "Known binaries: "
                                 \o CommaJoin(sorted(all_binaries))>>]
         ELSE BinLoopAllDropped(binaries, i + 1, {binary})

RECURSIVE BinLoop(_, _, _)
BinLoop(binaries, i, out) ==
    IF i > Len(binaries) THEN [exit |-> FALSE, out |-> out]
    ELSE LET binary == binaries[i] IN
         IF binary = "all" THEN BinLoop(binaries, i + 1, out \cup all_binaries)
         ELSE IF binary \notin all_binaries THEN
              [exit |-> TRUE, code |-> 1,
               printed |-> <<"Unknown binary " \o binary,
                             "Known binaries: "
                                 \o CommaJoin(sorted(all_binaries))>>]
         ELSE BinLoop(binaries, i + 1, out \cup {binary})

BinDefault(out) == IF out = {} THEN out \cup all_binaries ELSE out

\* the resolver collecting into a list: names come back as they were typed
_check_binaries_listed(binaries) ==
    LET r == BinLoop(binaries, 1, {}) IN
    IF r.exit THEN r
    ELSE IF Len(binaries) > 0 /\ \A i \in 1..Len(binaries) : binaries[i] # "all"
    THEN [exit |-> FALSE, value |-> binaries]
    ELSE [exit |-> FALSE, value |-> sorted(BinDefault(r.out))]

_check_binaries(binaries) ==
    LET r == BinLoop(binaries, 1, {}) IN
    IF r.exit THEN r
    ELSE [exit |-> FALSE, value |-> sorted(BinDefault(r.out))]

----------------------------------------------------------------------------
(* The build tree.  A path maps to its permission bits, or to Absent.      *)

Absent == -1

CellPath(arch, binary) == "build/" \o arch \o "/" \o binary
ArchPath(arch) == "build/" \o arch

AllCells == {<<arch, binary>> : arch \in all_architectures, binary \in all_binaries}

AllPaths ==
    {"build"} \cup {ArchPath(a) : a \in all_architectures}
              \cup {CellPath(c[1], c[2]) : c \in AllCells}

\* mode & ~mask over the nine permission bits
RECURSIVE BitClear(_, _, _)
BitClear(mode, mask, bit) ==
    IF bit > 8 THEN 0
    ELSE LET w == 2 ^ bit
             m == (mode \div w) % 2
             u == (mask \div w) % 2
         IN  (IF m = 1 /\ u = 0 THEN w ELSE 0) + BitClear(mode, mask, bit + 1)

\* a mode argument of 0o755
MakedirsModeWorld == 488 + 5

\* the mode argument of os.makedirs in _make_build_dirs: 0o750
MakedirsMode == 488

\* os.makedirs(dir, mode): missing ancestors first (with parentMode, which is
\* 0o777 on Python 3.7 and later and mode before that), then mkdir of the leaf
\* with mode, which raises FileExistsError when the leaf is already there; the
\* process umask is cleared from both modes.
makedirs(d, arch, binary, mode, parentMode, um) ==
    LET leaf == CellPath(arch, binary)
        parents == {p \in {"build", ArchPath(arch)} : d[p] = Absent}
        withParents == [p \in parents |-> BitClear(parentMode, um, 0)] @@ d
    IN  IF d[leaf] # Absent
        THEN [raised |-> TRUE, tree |-> withParents]
        ELSE [raised |-> FALSE,
              tree |-> (leaf :> BitClear(mode, um, 0)) @@ withParents]

\* the two loops without the os.path.exists test of line 59
RECURSIVE MakeDirsLoopUnguarded(_, _, _, _)
MakeDirsLoopUnguarded(cells, d, parentMode, um) ==
    IF cells = {} THEN [raised |-> FALSE, tree |-> d]
    ELSE LET c == CHOOSE x \in cells : TRUE
             r == makedirs(d, c[1], c[2], MakedirsMode, parentMode, um)
         IN  IF r.raised THEN r
             ELSE MakeDirsLoopUnguarded(cells \ {c}, r.tree, parentMode, um)

\* the two loops of _make_build_dirs over the cells still to visit; an
\* exception out of os.makedirs ends them
RECURSIVE MakeDirsLoop(_, _, _, _)
MakeDirsLoop(cells, d, parentMode, um) ==
    IF cells = {} THEN [raised |-> FALSE, tree |-> d]
    ELSE LET c == CHOOSE x \in cells : TRUE
             dir == CellPath(c[1], c[2])
             r == IF d[dir] = Absent
                  THEN makedirs(d, c[1], c[2], MakedirsMode, parentMode, um)
                  ELSE [raised |-> FALSE, tree |-> d]
         IN  IF r.raised THEN r
             ELSE MakeDirsLoop(cells \ {c}, r.tree, parentMode, um)

_make_build_dirs(d, parentMode, um) == MakeDirsLoop(AllCells, d, parentMode, um)

----------------------------------------------------------------------------
(* External commands, as build, push and push_multiarch format them.       *)

\* run("go build -v -o build/{arch}/{bin}/{bin} -ldflags ... ./cmd/{bin}/", env=env)
GoBuildCmd(arch, bin, commit, branch) ==
    [tool |-> "go build",
     out |-> "build/" \o arch \o "/" \o bin \o "/" \o bin,
     gitCommit |-> commit,
     gitBranch |-> branch,
     pkg |-> "./cmd/" \o bin \o "/",
     env |-> [CGO_ENABLED |-> "0", GOOS |-> "linux", GOARCH |-> arch,
              GOARM |-> "6", GO111MODULE |-> "on"]]

\* the image tag with arch and tag exchanged in the format arguments
DockerBuildCmdSwapped(user, bin, tag, arch) ==
    [tool |-> "docker build",
     image |-> user \o "/" \o bin \o ":" \o arch \o "-" \o tag,
     dockerfile |-> "build/package/Dockerfile." \o bin,
     context |-> "build/" \o arch \o "/" \o bin]

\* run("docker build -t {user}/{bin}:{tag}-{arch} -f build/package/Dockerfile.{bin} build/{arch}/{bin}")
DockerBuildCmd(user, bin, tag, arch) ==
    [tool |-> "docker build",
     image |-> user \o "/" \o bin \o ":" \o tag \o "-" \o arch,
     dockerfile |-> "build/package/Dockerfile." \o bin,
     context |-> "build/" \o arch \o "/" \o bin]

\* run("docker push {user}/{bin}:{tag}-{arch}")
DockerPushCmd(user, bin, arch, tag) ==
    [tool |-> "docker push",
     image |-> user \o "/" \o bin \o ":" \o tag \o "-" \o arch]

\* ",".join("linux/{}".format(arch) for arch in architectures)
RECURSIVE Platforms(_)
Platforms(architectures) ==
    IF Len(architectures) = 0 THEN ""
    ELSE IF Len(architectures) = 1 THEN "linux/" \o architectures[1]
    ELSE "linux/" \o architectures[1] \o "," \o Platforms(Tail(architectures))

\* run("manifest-tool push from-args --platforms .. --template .. --target ..")
ManifestCmd(platforms, user, bin, tag) ==
    [tool |-> "manifest-tool push from-args",
     platforms |-> platforms,
     template |-> user \o "/" \o bin \o ":" \o tag \o "-ARCH",
     target |-> user \o "/" \o bin \o ":" \o tag]

GitDescribeCmd == [tool |-> "git describe --dirty --always"]
GitRevParseCmd == [tool |-> "git rev-parse --abbrev-ref HEAD"]

\* one entry of log: the command and whether it exited zero
Ran(cmd, ok) == [cmd |-> cmd, ok |-> ok]

----------------------------------------------------------------------------
(* Frames and loop positions *)

NoFrame == [active |-> FALSE]

BuildFrame(binaries, architectures, tag, docker_user) ==
    [active |-> TRUE, binaries |-> binaries, architectures |-> architectures,
     tag |-> tag, docker_user |-> docker_user,
     commit |-> "", branch |-> "", ai |-> 1, bi |-> 1]

PushFrame(binaries, architectures, tag, docker_user) ==
    [active |-> TRUE, binaries |-> binaries, architectures |-> architectures,
     tag |-> tag, docker_user |-> docker_user, ai |-> 1, bi |-> 1]

MultiFrame(binaries, tag, docker_user) ==
    [active |-> TRUE, binaries |-> binaries, architectures |-> <<>>,
     tag |-> tag, docker_user |-> docker_user, platforms |-> "", bi |-> 1]

\* "for arch in architectures: for bin in binaries:" has a cell left after
\* (ai, bi) unless both loops are at their last element
LastCell(f) == f.bi >= Len(f.binaries) /\ f.ai >= Len(f.architectures)

\* the loops nested the other way round: "for bin in binaries: for arch in
\* architectures:"
NextCellBinaryMajor(f) ==
    IF f.ai < Len(f.architectures) THEN [f EXCEPT !.ai = f.ai + 1]
    ELSE [f EXCEPT !.ai = 1, !.bi = f.bi + 1]

NextCell(f) ==
    IF f.bi < Len(f.binaries) THEN [f EXCEPT !.bi = f.bi + 1]
    ELSE [f EXCEPT !.ai = f.ai + 1, !.bi = 1]

\* the matrix is empty when either list is
NoCells(f) == Len(f.binaries) = 0 \/ Len(f.architectures) = 0

----------------------------------------------------------------------------
(* build, lines 69-104 *)

\* build without its call of _make_build_dirs
BuildCheckNoLayout ==
    /\ pc = "build_check"
    /\ LET rb == _check_binaries(buildF.binaries)
           ra == _check_architectures(buildF.architectures)
       IN  IF rb.exit
           THEN /\ pc' = "exited"
                /\ printed' = printed \o rb.printed
                /\ UNCHANGED buildF
           ELSE IF ra.exit
           THEN /\ pc' = "exited"
                /\ printed' = printed \o ra.printed
                /\ buildF' = [buildF EXCEPT !.binaries = rb.value]
           ELSE /\ pc' = "build_describe"
                /\ buildF' = [buildF EXCEPT !.binaries = rb.value,
                                             !.architectures = ra.value]
                /\ UNCHANGED printed
    /\ UNCHANGED <<task, pushF, multiF, relF, log, layoutRuns, dirs, umask,
                   repo, artifacts, sel, ret>>

\* lines 71-72: both selectors are resolved, binaries first; an unknown
\* token ends the process before _make_build_dirs
BuildCheck ==
    /\ pc = "build_check"
    /\ LET rb == _check_binaries(buildF.binaries)
           ra == _check_architectures(buildF.architectures)
       IN  IF rb.exit
           THEN /\ pc' = "exited"
                /\ printed' = printed \o rb.printed
                /\ UNCHANGED buildF
           ELSE IF ra.exit
           THEN /\ pc' = "exited"
                /\ printed' = printed \o ra.printed
                /\ buildF' = [buildF EXCEPT !.binaries = rb.value]
           ELSE /\ pc' = "build_mkdirs"
                /\ buildF' = [buildF EXCEPT !.binaries = rb.value,
                                             !.architectures = ra.value]
                /\ UNCHANGED printed
    /\ UNCHANGED <<task, pushF, multiF, relF, log, layoutRuns, dirs, umask,
                   repo, artifacts, sel, ret>>

\* line 73
BuildMakeDirs ==
    /\ pc = "build_mkdirs"
    /\ \E parentMode \in {511, MakedirsMode} :
           LET r == _make_build_dirs(dirs, parentMode, umask)
           IN  /\ dirs' = r.tree
               /\ pc' = IF r.raised THEN "raised" ELSE "build_describe"
    /\ layoutRuns' = Append(layoutRuns, Len(log))
    /\ UNCHANGED <<task, buildF, pushF, multiF, relF, log, umask, repo,
                   printed, artifacts, sel, ret>>

\* line 75
BuildDescribe ==
    /\ pc = "build_describe"
    /\ \E ok \in BOOLEAN :
        /\ log' = Append(log, Ran(GitDescribeCmd, ok))
        /\ IF ok
           THEN /\ buildF' = [buildF EXCEPT !.commit = repo.describe]
                /\ pc' = "build_revparse"
           ELSE /\ pc' = "failed"
                /\ UNCHANGED buildF
    /\ UNCHANGED <<task, pushF, multiF, relF, layoutRuns, dirs, umask, repo,
                   printed, artifacts, sel, ret>>

\* where build goes when its loops are over: back to its caller
BuildReturn == IF task = "build" THEN "done" ELSE "push_docker"

\* line 76, and the entry into the loops of lines 78 and 86
BuildRevParse ==
    /\ pc = "build_revparse"
    /\ \E ok \in BOOLEAN :
        /\ log' = Append(log, Ran(GitRevParseCmd, ok))
        /\ IF ok
           THEN /\ buildF' = [buildF EXCEPT !.branch = repo.head]
                /\ pc' = IF NoCells(buildF) THEN BuildReturn ELSE "build_go"
           ELSE /\ pc' = "failed"
                /\ UNCHANGED buildF
    /\ UNCHANGED <<task, pushF, multiF, relF, layoutRuns, dirs, umask, repo,
                   printed, artifacts, sel, ret>>

\* the compile step with its failure swallowed: build goes on to the image
BuildGoUnchecked ==
    /\ pc = "build_go"
    /\ LET arch == buildF.architectures[buildF.ai]
           bin == buildF.binaries[buildF.bi]
           cmd == GoBuildCmd(arch, bin, buildF.commit, buildF.branch)
       IN  \E ok \in BOOLEAN :
           /\ log' = Append(log, Ran(cmd, ok))
           /\ artifacts' = IF ok THEN [artifacts EXCEPT !.files = @ \cup {cmd.out}]
                           ELSE artifacts
           /\ pc' = "build_docker"
    /\ UNCHANGED <<task, buildF, pushF, multiF, relF, layoutRuns, dirs, umask,
                   repo, printed, sel, ret>>

\* lines 87-96: compile the current cell
BuildGo ==
    /\ pc = "build_go"
    /\ LET arch == buildF.architectures[buildF.ai]
           bin == buildF.binaries[buildF.bi]
           cmd == GoBuildCmd(arch, bin, buildF.commit, buildF.branch)
       IN  \E ok \in BOOLEAN :
           /\ log' = Append(log, Ran(cmd, ok))
           /\ IF ok
              THEN /\ artifacts' = [artifacts EXCEPT !.files = @ \cup {cmd.out}]
                   /\ pc' = "build_docker"
              ELSE /\ pc' = "failed"
                   /\ UNCHANGED artifacts
    /\ UNCHANGED <<task, buildF, pushF, multiF, relF, layoutRuns, dirs, umask,
                   repo, printed, sel, ret>>

\* lines 97-104: build the image of the current cell, then the next cell
BuildDocker ==
    /\ pc = "build_docker"
    /\ LET arch == buildF.architectures[buildF.ai]
           bin == buildF.binaries[buildF.bi]
           cmd == DockerBuildCmd(buildF.docker_user, bin, buildF.tag, arch)
       IN  \E ok \in BOOLEAN :
           /\ log' = Append(log, Ran(cmd, ok))
           /\ IF ok
              THEN /\ artifacts' = [artifacts EXCEPT !.images = @ \cup {cmd.image}]
                   /\ IF LastCell(buildF)
                      THEN /\ pc' = BuildReturn
                           /\ UNCHANGED buildF
                      ELSE /\ pc' = "build_go"
                           /\ buildF' = NextCell(buildF)
              ELSE /\ pc' = "failed"
                   /\ UNCHANGED <<artifacts, buildF>>
    /\ UNCHANGED <<task, pushF, multiF, relF, layoutRuns, dirs, umask, repo,
                   printed, sel, ret>>

----------------------------------------------------------------------------
(* push, lines 113-126 *)

\* lines 115-116
PushCheck ==
    /\ pc = "push_check"
    /\ LET rb == _check_binaries(pushF.binaries)
           ra == _check_architectures(pushF.architectures)
       IN  IF rb.exit
           THEN /\ pc' = "exited"
                /\ printed' = printed \o rb.printed
                /\ UNCHANGED pushF
           ELSE IF ra.exit
           THEN /\ pc' = "exited"
                /\ printed' = printed \o ra.printed
                /\ pushF' = [pushF EXCEPT !.binaries = rb.value]
           ELSE /\ pc' = "push_build"
                /\ pushF' = [pushF EXCEPT !.binaries = rb.value,
                                           !.architectures = ra.value]
                /\ UNCHANGED printed
    /\ UNCHANGED <<task, buildF, multiF, relF, log, layoutRuns, dirs, umask,
                   repo, artifacts, sel, ret>>

\* where push goes when its loops are over
PushReturn == IF task = "push" THEN "done" ELSE "multi_manifest"

\* the call with the whole lists: build(ctx, binaries, architectures, ...)
PushCallBuildWholeMatrix ==
    /\ pc = "push_build"
    /\ IF NoCells(pushF)
       THEN /\ pc' = PushReturn
            /\ UNCHANGED buildF
       ELSE /\ buildF' = BuildFrame(pushF.binaries, pushF.architectures,
                                    pushF.tag, pushF.docker_user)
            /\ pc' = "build_check"
    /\ UNCHANGED <<task, pushF, multiF, relF, log, layoutRuns, dirs, umask,
                   repo, printed, artifacts, sel, ret>>

\* line 120: build(ctx, binaries=[bin], architectures=[arch], tag, docker_user)
PushCallBuild ==
    /\ pc = "push_build"
    /\ IF NoCells(pushF)
       THEN /\ pc' = PushReturn
            /\ UNCHANGED buildF
       ELSE /\ buildF' = BuildFrame(<<pushF.binaries[pushF.bi]>>,
                                    <<pushF.architectures[pushF.ai]>>,
                                    pushF.tag, pushF.docker_user)
            /\ pc' = "build_check"
    /\ UNCHANGED <<task, pushF, multiF, relF, log, layoutRuns, dirs, umask,
                   repo, printed, artifacts, sel, ret>>

\* a push whose failure is not noticed: the loops go on
PushDockerUnchecked ==
    /\ pc = "push_docker"
    /\ LET arch == pushF.architectures[pushF.ai]
           bin == pushF.binaries[pushF.bi]
           cmd == DockerPushCmd(pushF.docker_user, bin, arch, pushF.tag)
       IN  \E ok \in BOOLEAN :
           /\ log' = Append(log, Ran(cmd, ok))
           /\ artifacts' = IF ok
                           THEN [artifacts EXCEPT !.registry = @ \cup {cmd.image}]
                           ELSE artifacts
           /\ IF LastCell(pushF)
              THEN /\ pc' = PushReturn
                   /\ UNCHANGED pushF
              ELSE /\ pc' = "push_build"
                   /\ pushF' = NextCell(pushF)
    /\ UNCHANGED <<task, buildF, multiF, relF, layoutRuns, dirs, umask, repo,
                   printed, sel, ret>>

\* lines 121-126: push the image of the current cell, then the next cell
PushDocker ==
    /\ pc = "push_docker"
    /\ LET arch == pushF.architectures[pushF.ai]
           bin == pushF.binaries[pushF.bi]
           cmd == DockerPushCmd(pushF.docker_user, bin, arch, pushF.tag)
       IN  \E ok \in BOOLEAN :
           /\ log' = Append(log, Ran(cmd, ok))
           /\ IF ok
              THEN /\ artifacts' = [artifacts EXCEPT !.registry = @ \cup {cmd.image}]
                   /\ IF LastCell(pushF)
                      THEN /\ pc' = PushReturn
                           /\ UNCHANGED pushF
                      ELSE /\ pc' = "push_build"
                           /\ pushF' = NextCell(pushF)
              ELSE /\ pc' = "failed"
                   /\ UNCHANGED <<artifacts, pushF>>
    /\ UNCHANGED <<task, buildF, multiF, relF, layoutRuns, dirs, umask, repo,
                   printed, sel, ret>>

----------------------------------------------------------------------------
(* push_multiarch, lines 134-150 *)

\* push_multiarch resolving an empty architecture selector, not ["all"]
MultiCheckDefaultArch ==
    /\ pc = "multi_check"
    /\ LET rb == _check_binaries(multiF.binaries)
           ra == _check_architectures(<<>>)
       IN  IF rb.exit
           THEN /\ pc' = "exited"
                /\ printed' = printed \o rb.printed
                /\ UNCHANGED <<multiF, pushF>>
           ELSE /\ pc' = "push_check"
                /\ multiF' = [multiF EXCEPT !.binaries = rb.value,
                                             !.architectures = ra.value]
                /\ pushF' = PushFrame(rb.value, ra.value,
                                      multiF.tag, multiF.docker_user)
                /\ UNCHANGED printed
    /\ UNCHANGED <<task, buildF, relF, log, layoutRuns, dirs, umask, repo,
                   artifacts, sel, ret>>

\* lines 136-138: resolve, then call push with the resolved lists
MultiCheck ==
    /\ pc = "multi_check"
    /\ LET rb == _check_binaries(multiF.binaries)
           ra == _check_architectures(<<"all">>)
       IN  IF rb.exit
           THEN /\ pc' = "exited"
                /\ printed' = printed \o rb.printed
                /\ UNCHANGED <<multiF, pushF>>
           ELSE IF ra.exit
           THEN /\ pc' = "exited"
                /\ printed' = printed \o ra.printed
                /\ multiF' = [multiF EXCEPT !.binaries = rb.value]
                /\ UNCHANGED pushF
           ELSE /\ pc' = "push_check"
                /\ multiF' = [multiF EXCEPT !.binaries = rb.value,
                                             !.architectures = ra.value]
                /\ pushF' = PushFrame(rb.value, ra.value,
                                      multiF.tag, multiF.docker_user)
                /\ UNCHANGED printed
    /\ UNCHANGED <<task, buildF, relF, log, layoutRuns, dirs, umask, repo,
                   artifacts, sel, ret>>

\* lines 140-150: one manifest per binary
MultiManifest ==
    /\ pc = "multi_manifest"
    /\ IF Len(multiF.binaries) = 0
       THEN /\ pc' = "done"
            /\ UNCHANGED <<log, artifacts, multiF>>
       ELSE LET platforms == Platforms(multiF.architectures)
                bin == multiF.binaries[multiF.bi]
                cmd == ManifestCmd(platforms, multiF.docker_user, bin, multiF.tag)
            IN  \E ok \in BOOLEAN :
                /\ log' = Append(log, Ran(cmd, ok))
                /\ IF ok
                   THEN /\ artifacts' = [artifacts EXCEPT
                                             !.manifests = @ \cup {cmd.target}]
                        /\ IF multiF.bi >= Len(multiF.binaries)
                           THEN /\ pc' = "done"
                                /\ multiF' = [multiF EXCEPT !.platforms = platforms]
                           ELSE /\ pc' = "multi_manifest"
                                /\ multiF' = [multiF EXCEPT !.platforms = platforms,
                                                             !.bi = @ + 1]
                   ELSE /\ pc' = "failed"
                        /\ multiF' = [multiF EXCEPT !.platforms = platforms]
                        /\ UNCHANGED artifacts
    /\ UNCHANGED <<task, buildF, pushF, relF, layoutRuns, dirs, umask, repo,
                   printed, sel, ret>>

----------------------------------------------------------------------------
(* Text as release handles it.  A version argument and the output of       *)
(* git status are sequences of one-character strings.                      *)

Digits == <<"0", "1", "2", "3", "4", "5", "6", "7", "8", "9">>

IsDigit(c) == \E i \in 1..10 : Digits[i] = c

DigitValue(c) == (CHOOSE i \in 1..10 : Digits[i] = c) - 1

Letters ==
    {"a", "b", "c", "d", "e", "f", "g", "h", "i", "j", "k", "l", "m", "n",
     "o", "p", "q", "r", "s", "t", "u", "v", "w", "x", "y", "z"}

\* [0-9A-Za-z-]
IsIdentChar(c) == IsDigit(c) \/ c \in Letters \/ c = "-"

IsSpace(c) == c \in {" ", "\n", "\t"}

\* "".join(chars)
RECURSIVE Text(_)
Text(chars) == IF Len(chars) = 0 THEN "" ELSE chars[1] \o Text(Tail(chars))

\* str.strip()
RECURSIVE LStrip(_)
LStrip(chars) ==
    IF Len(chars) > 0 /\ IsSpace(chars[1]) THEN LStrip(Tail(chars)) ELSE chars

RECURSIVE RStrip(_)
RStrip(chars) ==
    IF Len(chars) > 0 /\ IsSpace(chars[Len(chars)])
    THEN RStrip(SubSeq(chars, 1, Len(chars) - 1))
    ELSE chars

Strip(chars) == RStrip(LStrip(chars))

----------------------------------------------------------------------------
\* semver.parse_version_info, called at line 162.  The argument must be
\*   <num>.<num>.<num>[-<id>(.<id>)...][+<id>(.<id>)...]
\* from its first to its last character, <num> being 0 or a run of digits
\* not starting with 0; anything else raises ValueError.

\* the end of the run of digits that starts at i
RECURSIVE DigitsEnd(_, _)
DigitsEnd(chars, i) ==
    IF i <= Len(chars) /\ IsDigit(chars[i]) THEN DigitsEnd(chars, i + 1) ELSE i

RECURSIVE Decimal(_, _)
Decimal(chars, acc) ==
    IF Len(chars) = 0 THEN acc
    ELSE Decimal(Tail(chars), 10 * acc + DigitValue(chars[1]))

\* [0-9]+ at position i: a number may start with 0
ParseNumberLeadingZero(chars, i) ==
    LET e == DigitsEnd(chars, i) IN
    IF e = i THEN [ok |-> FALSE]
    ELSE [ok |-> TRUE, value |-> Decimal(SubSeq(chars, i, e - 1), 0), next |-> e]

\* 0|[1-9][0-9]* at position i: [ok, value, next]
ParseNumber(chars, i) ==
    LET e == DigitsEnd(chars, i) IN
    IF e = i THEN [ok |-> FALSE]
    ELSE IF chars[i] = "0" /\ e > i + 1 THEN [ok |-> FALSE]
    ELSE [ok |-> TRUE, value |-> Decimal(SubSeq(chars, i, e - 1), 0), next |-> e]

\* the position of the first c at or after i, or Len + 1
RECURSIVE Find(_, _, _)
Find(chars, c, i) ==
    IF i > Len(chars) \/ chars[i] = c THEN i ELSE Find(chars, c, i + 1)

\* dot-separated identifiers filling chars[i..j]; a prerelease identifier
\* is 0 or starts with anything but 0, a build identifier is any run
RECURSIVE Identifiers(_, _, _, _)
Identifiers(chars, i, j, prerelease) ==
    LET d == Find(SubSeq(chars, 1, j), ".", i)
        id == SubSeq(chars, i, d - 1)
        okId == /\ Len(id) > 0
                /\ \A k \in 1..Len(id) : IsIdentChar(id[k])
                /\ prerelease /\ id[1] = "0" => Len(id) = 1
    IN  IF i > j THEN FALSE
        ELSE IF ~okId THEN FALSE
        ELSE IF d > j THEN TRUE
        ELSE Identifiers(chars, d + 1, j, prerelease)

\* everything after the patch number
ParseSuffix(chars, i) ==
    LET n == Len(chars)
        plus == Find(chars, "+", i)
    IN  IF i > n THEN [ok |-> TRUE, prerelease |-> "", build |-> ""]
        ELSE IF chars[i] = "-"
        THEN IF ~Identifiers(chars, i + 1, plus - 1, TRUE) THEN [ok |-> FALSE]
             ELSE IF plus > n
             THEN [ok |-> TRUE, prerelease |-> Text(SubSeq(chars, i + 1, n)),
                   build |-> ""]
             ELSE IF ~Identifiers(chars, plus + 1, n, FALSE) THEN [ok |-> FALSE]
             ELSE [ok |-> TRUE,
                   prerelease |-> Text(SubSeq(chars, i + 1, plus - 1)),
                   build |-> Text(SubSeq(chars, plus + 1, n))]
        ELSE IF chars[i] = "+"
        THEN IF ~Identifiers(chars, i + 1, n, FALSE) THEN [ok |-> FALSE]
             ELSE [ok |-> TRUE, prerelease |-> "",
                   build |-> Text(SubSeq(chars, i + 1, n))]
        ELSE [ok |-> FALSE]

NoVersion == [ok |-> FALSE]

parse_version_info(chars) ==
    LET n == Len(chars)
        a == ParseNumber(chars, 1)
    IN  IF ~a.ok \/ a.next > n \/ chars[a.next] # "." THEN NoVersion
        ELSE LET b == ParseNumber(chars, a.next + 1) IN
        IF ~b.ok \/ b.next > n \/ chars[b.next] # "." THEN NoVersion
        ELSE LET c == ParseNumber(chars, b.next + 1) IN
        IF ~c.ok THEN NoVersion
        ELSE LET t == ParseSuffix(chars, c.next) IN
        IF ~t.ok THEN NoVersion
        ELSE [ok |-> TRUE, major |-> a.value, minor |-> b.value,
              patch |-> c.value, prerelease |-> t.prerelease, build |-> t.build]

\* str(version), as "{}".format(version) prints it
VersionStr(v) ==
    ToString(v.major) \o "." \o ToString(v.minor) \o "." \o ToString(v.patch)
        \o (IF v.prerelease = "" THEN "" ELSE "-" \o v.prerelease)
        \o (IF v.build = "" THEN "" ELSE "+" \o v.build)

\* the branch named after minor and patch instead of major and minor
ReleaseBranchMinorPatch(v) == "v" \o ToString(v.minor) \o "." \o ToString(v.patch)

\* "v{}.{}".format(version.major, version.minor)
ReleaseBranch(v) == "v" \o ToString(v.major) \o "." \o ToString(v.minor)

----------------------------------------------------------------------------
(* The git checkout.  tips maps each branch to the tree of its last        *)
(* commit; tree is the working tree; status is what                        *)
(* git status --porcelain prints.                                          *)

Tree(speaker, controller, version, formatted) ==
    [speaker |-> speaker, controller |-> controller, version |-> version,
     formatted |-> formatted]

MainTree == Tree("main", "main", "main", TRUE)

Branches(r) == DOMAIN r.tips

\* git checkout -b <branch>: a new branch at the current commit
GitCreateBranch(r, branch) ==
    [r EXCEPT !.head = branch,
              !.tips = [b \in Branches(r) \cup {branch} |->
                           IF b = branch THEN r.tips[r.head] ELSE r.tips[b]]]

\* git checkout <branch>: an existing branch
GitSwitch(r, branch) == [r EXCEPT !.head = branch, !.tree = r.tips[branch]]

\* git commit -a -m <message>
GitCommit(r, message) ==
    [r EXCEPT !.tips = [r.tips EXCEPT ![r.head] = r.tree],
              !.commits = Append(@, [branch |-> r.head, message |-> message,
                                     tree |-> r.tree])]

----------------------------------------------------------------------------
(* Commands of release *)

GitStatusCmd == [tool |-> "git status --porcelain"]

\* lines 168 and 170
GitCheckoutCmd(v) == [tool |-> "git checkout", branch |-> ReleaseBranch(v)]
GitCheckoutNewCmd(v) == [tool |-> "git checkout -b", branch |-> ReleaseBranch(v)]

\* lines 173, 174, 177: perl -pi -e 's,<pattern>,<replacement>,g' <file>
PerlCmd(pattern, replacement, file) ==
    [tool |-> "perl -pi -e", pattern |-> pattern, replacement |-> replacement,
     file |-> file]

PatchSpeakerCmd(v) ==
    PerlCmd("image: metallb/speaker:.*",
            "image: metallb/speaker:v" \o VersionStr(v),
            "deployments/metallb.yaml")

PatchControllerCmd(v) ==
    PerlCmd("image: metallb/controller:.*",
            "image: metallb/controller:v" \o VersionStr(v),
            "deployments/metallb.yaml")

PatchVersionCmd(v) ==
    PerlCmd("version\\s+=.*", "version = \"" \o VersionStr(v) \o "\"",
            "internal/version/version.go")

GofmtCmd == [tool |-> "gofmt -w", file |-> "internal/version/version.go"]

GitCommitCmd(v) ==
    [tool |-> "git commit -a -m",
     message |-> "Automated update for release v" \o VersionStr(v)]

GitCheckoutMainCmd == [tool |-> "git checkout", branch |-> "main"]

\* arg keeps the version as typed (sys.argv); version is rebound at line 162
ReleaseFrame(version, skip_release_notes) ==
    [active |-> TRUE, arg |-> version, version |-> version,
     skip_release_notes |-> skip_release_notes, is_patch_release |-> FALSE]

----------------------------------------------------------------------------
(* release, lines 156-181 *)

\* how a command may end: it can always fail, and it can succeed only when
\* the checkout allows it
Outcomes(can) == IF can THEN {TRUE, FALSE} ELSE {FALSE}

\* release without the test of line 159
ReleaseStatusUnchecked ==
    /\ pc = "rel_status"
    /\ \E ok \in BOOLEAN :
        /\ log' = Append(log, Ran(GitStatusCmd, ok))
        /\ pc' = IF ~ok THEN "failed" ELSE "rel_parse"
    /\ UNCHANGED <<task, buildF, pushF, multiF, relF, layoutRuns, dirs, umask,
                   repo, printed, artifacts, sel, ret>>

\* lines 158-160
ReleaseStatus ==
    /\ pc = "rel_status"
    /\ \E ok \in BOOLEAN :
        /\ log' = Append(log, Ran(GitStatusCmd, ok))
        /\ pc' = IF ~ok THEN "failed"
                 ELSE IF Strip(repo.status) # <<>> THEN "aborted"
                 ELSE "rel_parse"
    /\ UNCHANGED <<task, buildF, pushF, multiF, relF, layoutRuns, dirs, umask,
                   repo, printed, artifacts, sel, ret>>

\* release with a release-notes test behind the flag: unless
\* skip_release_notes is set, a version without release notes ends in Exit
ReleaseParseNotesChecked ==
    /\ pc = "rel_parse"
    /\ LET v == parse_version_info(relF.version) IN
       IF ~relF.skip_release_notes
       THEN /\ pc' = "aborted"
            /\ UNCHANGED relF
       ELSE IF v.ok
       THEN /\ relF' = [relF EXCEPT !.version = v,
                                    !.is_patch_release = (v.patch # 0)]
            /\ pc' = "rel_checkout"
       ELSE /\ pc' = "raised"
            /\ UNCHANGED relF
    /\ UNCHANGED <<task, buildF, pushF, multiF, log, layoutRuns, dirs, umask,
                   repo, printed, artifacts, sel, ret>>

\* lines 162-163
ReleaseParse ==
    /\ pc = "rel_parse"
    /\ LET v == parse_version_info(relF.version) IN
       IF v.ok
       THEN /\ relF' = [relF EXCEPT !.version = v,
                                    !.is_patch_release = (v.patch # 0)]
            /\ pc' = "rel_checkout"
       ELSE /\ pc' = "raised"
            /\ UNCHANGED relF
    /\ UNCHANGED <<task, buildF, pushF, multiF, log, layoutRuns, dirs, umask,
                   repo, printed, artifacts, sel, ret>>

\* lines 167-170
ReleaseCheckout ==
    /\ pc = "rel_checkout"
    /\ LET v == relF.version
           cmd == IF relF.is_patch_release
                  THEN GitCheckoutCmd(v) ELSE GitCheckoutNewCmd(v)
           can == IF relF.is_patch_release
                  THEN cmd.branch \in Branches(repo)
                  ELSE cmd.branch \notin Branches(repo)
       IN  \E ok \in Outcomes(can) :
           /\ log' = Append(log, Ran(cmd, ok))
           /\ IF ok
              THEN /\ repo' = IF relF.is_patch_release
                              THEN GitSwitch(repo, cmd.branch)
                              ELSE GitCreateBranch(repo, cmd.branch)
                   /\ pc' = "rel_speaker"
              ELSE /\ pc' = "failed"
                   /\ UNCHANGED repo
    /\ UNCHANGED <<task, buildF, pushF, multiF, relF, layoutRuns, dirs, umask,
                   printed, artifacts, sel, ret>>

\* an edit whose failure is not noticed: release goes on to next
ReleaseEditUnchecked(at, cmd, tree2, next) ==
    /\ pc = at
    /\ \E ok \in BOOLEAN :
        /\ log' = Append(log, Ran(cmd, ok))
        /\ repo' = IF ok THEN [repo EXCEPT !.tree = tree2] ELSE repo
        /\ pc' = next
    /\ UNCHANGED <<task, buildF, pushF, multiF, relF, layoutRuns, dirs, umask,
                   printed, artifacts, sel, ret>>

\* one run() of release that edits the working tree and goes on to next
ReleaseEdit(at, cmd, tree2, next) ==
    /\ pc = at
    /\ \E ok \in BOOLEAN :
        /\ log' = Append(log, Ran(cmd, ok))
        /\ IF ok
           THEN /\ repo' = [repo EXCEPT !.tree = tree2]
                /\ pc' = next
           ELSE /\ pc' = "failed"
                /\ UNCHANGED repo
    /\ UNCHANGED <<task, buildF, pushF, multiF, relF, layoutRuns, dirs, umask,
                   printed, artifacts, sel, ret>>

\* line 173
ReleasePatchSpeaker ==
    ReleaseEdit("rel_speaker", PatchSpeakerCmd(relF.version),
                [repo.tree EXCEPT !.speaker = "v" \o VersionStr(relF.version)],
                "rel_controller")

\* line 174
ReleasePatchController ==
    ReleaseEdit("rel_controller", PatchControllerCmd(relF.version),
                [repo.tree EXCEPT !.controller = "v" \o VersionStr(relF.version)],
                "rel_version")

\* the version patch going straight to the commit, gofmt left out
ReleasePatchVersionNoFormat ==
    ReleaseEdit("rel_version", PatchVersionCmd(relF.version),
                [repo.tree EXCEPT !.version = VersionStr(relF.version),
                                  !.formatted = FALSE],
                "rel_commit")

\* line 177
ReleasePatchVersion ==
    ReleaseEdit("rel_version", PatchVersionCmd(relF.version),
                [repo.tree EXCEPT !.version = VersionStr(relF.version),
                                  !.formatted = FALSE],
                "rel_gofmt")

\* line 178
ReleaseGofmt ==
    ReleaseEdit("rel_gofmt", GofmtCmd, [repo.tree EXCEPT !.formatted = TRUE],
                "rel_commit")

\* line 180: git refuses to commit when nothing changed
ReleaseCommit ==
    /\ pc = "rel_commit"
    /\ LET cmd == GitCommitCmd(relF.version)
           can == repo.tree # repo.tips[repo.head]
       IN  \E ok \in Outcomes(can) :
           /\ log' = Append(log, Ran(cmd, ok))
           /\ IF ok
              THEN /\ repo' = GitCommit(repo, cmd.message)
                   /\ pc' = "rel_main"
              ELSE /\ pc' = "failed"
                   /\ UNCHANGED repo
    /\ UNCHANGED <<task, buildF, pushF, multiF, relF, layoutRuns, dirs, umask,
                   printed, artifacts, sel, ret>>

\* line 181
ReleaseCheckoutMain ==
    /\ pc = "rel_main"
    /\ LET can == "main" \in Branches(repo) IN
       \E ok \in Outcomes(can) :
           /\ log' = Append(log, Ran(GitCheckoutMainCmd, ok))
           /\ IF ok
              THEN /\ repo' = GitSwitch(repo, "main")
                   /\ pc' = "done"
              ELSE /\ pc' = "failed"
                   /\ UNCHANGED repo
    /\ UNCHANGED <<task, buildF, pushF, multiF, relF, layoutRuns, dirs, umask,
                   printed, artifacts, sel, ret>>

----------------------------------------------------------------------------
(* How the process ends: 0 after the task returns; 1 after sys.exit(1)     *)
(* (lines 33, 48), after Exit (line 160), after a failed command           *)
(* (UnexpectedExit, its status taken as 1) and after ValueError.           *)

Running == pc \notin {"done", "exited", "aborted", "failed", "raised", "returned"}

ExitCode == IF pc \in {"done", "returned"} THEN 0 ELSE 1

----------------------------------------------------------------------------
(* Command lines and environments the runs start from *)

SeqsUpTo(S, n) == UNION {[1..k -> S] : k \in 0..n}

\* tag and docker_user: the defaults of the task signatures, or both given
TagAndUser == {<<"dev", "metallb">>, <<"v0.9.3", "purelb">>}

NoTree == [p \in AllPaths |-> Absent]

\* a build tree left by an earlier run for the given architectures, made
\* under umask 0o022: 0o755 for build and build/<arch>, 0o750 for cells
TreeOf(archs) ==
    [p \in AllPaths |->
        IF p = "build" /\ archs # {} THEN 493
        ELSE IF \E a \in archs : p = ArchPath(a) THEN 493
        ELSE IF \E a \in archs, b \in all_binaries : p = CellPath(a, b) THEN 488
        ELSE Absent]

InitTrees == {NoTree, TreeOf({"amd64"})}

NoArtifacts == [files |-> {}, images |-> {}, registry |-> {}, manifests |-> {}]

Repo(status, describe, head, tips) ==
    [status |-> status, describe |-> describe, head |-> head, tips |-> tips,
     tree |-> tips[head], commits |-> <<>>]

\* checkouts build runs in: on main at a tagged commit, or with a detached
\* HEAD and local changes
BuildRepos ==
    {Repo(<<>>, "v0.9.3-4-g1a2b3c4", "main", [b \in {"main"} |-> MainTree]),
     Repo(<<" ", "M", " ", "t", "\n">>, "1a2b3c4-dirty", "HEAD",
          [b \in {"main", "HEAD"} |-> MainTree])}

NoSel == [fn |-> "none"]
NoRet == [kind |-> "none"]

InitBuild ==
    /\ task \in {"build", "push", "push_multiarch"}
    /\ \E binaries \in SeqsUpTo(BinaryTokens, MaxArgs), tu \in TagAndUser :
        \E architectures \in SeqsUpTo(ArchTokens, MaxArgs - Len(binaries)) :
        LET tag == tu[1]
            user == tu[2]
        IN
            \/ /\ task = "build"
               /\ pc = "build_check"
               /\ buildF = BuildFrame(binaries, architectures, tag, user)
               /\ pushF = NoFrame
               /\ multiF = NoFrame
            \/ /\ task = "push"
               /\ pc = "push_check"
               /\ buildF = NoFrame
               /\ pushF = PushFrame(binaries, architectures, tag, user)
               /\ multiF = NoFrame
            \/ /\ task = "push_multiarch"
               /\ architectures = <<>>
               /\ pc = "multi_check"
               /\ buildF = NoFrame
               /\ pushF = NoFrame
               /\ multiF = MultiFrame(binaries, tag, user)
    /\ relF = NoFrame
    /\ log = <<>>
    /\ layoutRuns = <<>>
    /\ dirs \in InitTrees
    /\ umask = 18        \* 0o022
    /\ repo \in BuildRepos
    /\ printed = <<>>
    /\ artifacts = NoArtifacts
    /\ sel = NoSel
    /\ ret = NoRet

NextBuild ==
    \/ BuildCheck
    \/ BuildMakeDirs
    \/ BuildDescribe
    \/ BuildRevParse
    \/ BuildGo
    \/ BuildDocker
    \/ PushCheck
    \/ PushCallBuild
    \/ PushDocker
    \/ MultiCheck
    \/ MultiManifest

SpecBuild == InitBuild /\ [][NextBuild]_vars

----------------------------------------------------------------------------
(* Runs of release *)

\* str(n) as characters
RECURSIVE NumChars(_)
NumChars(n) ==
    IF n < 10 THEN <<Digits[n + 1]>>
    ELSE NumChars(n \div 10) \o <<Digits[(n % 10) + 1]>>

VersionNums == 0..MaxVersionNum \cup {10}

Dotted(major, minor, patch) ==
    NumChars(major) \o <<".">> \o NumChars(minor) \o <<".">> \o NumChars(patch)

PlainVersions ==
    {Dotted(a, b, c) : a \in VersionNums, b \in VersionNums, c \in VersionNums}

\* a pre-release, build metadata, both; then suffixes the pattern rejects
Suffixes ==
    {<<"-", "r", "c", ".", "1">>, <<"+", "b", "7">>, <<"-", "r", "c", "+", "b">>,
     <<"-", "0", "1">>, <<"-">>, <<".">>, <<"+">>, <<"-", "r", ".", ".", "1">>,
     <<" ">>}

\* what a caller may pass as version: plain versions, versions with a
\* suffix, and strings that are close to a version
VersionArgs ==
    PlainVersions
    \cup {v \o x : v \in PlainVersions, x \in Suffixes}
    \cup {<<"v">> \o v : v \in PlainVersions}
    \cup {<<"0">> \o v : v \in PlainVersions}
    \cup {NumChars(a) \o <<".">> \o NumChars(b) : a \in VersionNums, b \in VersionNums}
    \cup {<<>>, <<"m", "a", "i", "n">>}

\* what git status --porcelain may print
StatusOutputs ==
    {<<>>, <<" ", "M", " ", "t", "\n">>, <<"?", "?", " ", "n", "\n">>}

\* the tree at the tip of release branch v<major>.<minor>
ReleaseTree(major, minor) ==
    LET v == ToString(major) \o "." \o ToString(minor) \o ".0"
    IN  Tree("v" \o v, "v" \o v, v, TRUE)

\* main alone, or main and the release branches of the given major versions
TipsWith(majors) ==
    LET names == {<<a, b>> : a \in majors, b \in VersionNums}
        branch(n) == "v" \o ToString(n[1]) \o "." \o ToString(n[2])
    IN  [x \in {"main"} \cup {branch(n) : n \in names} |->
            IF x = "main" THEN MainTree
            ELSE LET n == CHOOSE n \in names : branch(n) = x
                 IN  ReleaseTree(n[1], n[2])]

ReleaseTips == {TipsWith({}), TipsWith({0}), TipsWith(VersionNums)}

InitRelease ==
    /\ task = "release"
    /\ pc = "rel_status"
    /\ \E version \in VersionArgs, skip \in BOOLEAN :
           relF = ReleaseFrame(version, skip)
    /\ \E status \in StatusOutputs, tips \in ReleaseTips :
           repo = Repo(status, "v0.9.3-4-g1a2b3c4", "main", tips)
    /\ buildF = NoFrame
    /\ pushF = NoFrame
    /\ multiF = NoFrame
    /\ log = <<>>
    /\ layoutRuns = <<>>
    /\ dirs = NoTree
    /\ umask = 18        \* 0o022
    /\ printed = <<>>
    /\ artifacts = NoArtifacts
    /\ sel = NoSel
    /\ ret = NoRet

NextRelease ==
    \/ ReleaseStatus
    \/ ReleaseParse
    \/ ReleaseCheckout
    \/ ReleasePatchSpeaker
    \/ ReleasePatchController
    \/ ReleasePatchVersion
    \/ ReleaseGofmt
    \/ ReleaseCommit
    \/ ReleaseCheckoutMain

SpecRelease == InitRelease /\ [][NextRelease]_vars

----------------------------------------------------------------------------
(* The resolvers alone: one call on a token list, and what comes back *)

Returned(r) ==
    IF r.exit THEN [kind |-> "exit", code |-> r.code]
    ELSE [kind |-> "return", value |-> r.value]

CallCheckBinaries ==
    /\ pc = "call"
    /\ sel.fn = "_check_binaries"
    /\ LET r == _check_binaries(sel.tokens) IN
       /\ ret' = Returned(r)
       /\ printed' = IF r.exit THEN printed \o r.printed ELSE printed
       /\ pc' = IF r.exit THEN "exited" ELSE "returned"
    /\ UNCHANGED <<task, buildF, pushF, multiF, relF, log, layoutRuns, dirs,
                   umask, repo, artifacts, sel>>

CallCheckArchitectures ==
    /\ pc = "call"
    /\ sel.fn = "_check_architectures"
    /\ LET r == _check_architectures(sel.tokens) IN
       /\ ret' = Returned(r)
       /\ printed' = IF r.exit THEN printed \o r.printed ELSE printed
       /\ pc' = IF r.exit THEN "exited" ELSE "returned"
    /\ UNCHANGED <<task, buildF, pushF, multiF, relF, log, layoutRuns, dirs,
                   umask, repo, artifacts, sel>>

InitResolve ==
    /\ task = "none"
    /\ pc = "call"
    /\ \/ \E tokens \in SeqsUpTo(BinaryTokens, MaxTokens) :
             sel = [fn |-> "_check_binaries", tokens |-> tokens]
       \/ \E tokens \in SeqsUpTo(ArchTokens, MaxTokens) :
             sel = [fn |-> "_check_architectures", tokens |-> tokens]
    /\ ret = NoRet
    /\ buildF = NoFrame
    /\ pushF = NoFrame
    /\ multiF = NoFrame
    /\ relF = NoFrame
    /\ log = <<>>
    /\ layoutRuns = <<>>
    /\ dirs = NoTree
    /\ umask = 18        \* 0o022
    /\ repo = Repo(<<>>, "v0.9.3-4-g1a2b3c4", "main", [b \in {"main"} |-> MainTree])
    /\ printed = <<>>
    /\ artifacts = NoArtifacts

NextResolve ==
    \/ CallCheckBinaries
    \/ CallCheckArchitectures

SpecResolve == InitResolve /\ [][NextResolve]_vars

----------------------------------------------------------------------------
(* Builds of valid selectors, the command line kept beside the run *)

ValidBinaryTokens == all_binaries \cup {"all"}
ValidArchTokens == all_architectures \cup {"all"}

InitBuildArgs ==
    /\ task = "build"
    /\ pc = "build_check"
    /\ \E binaries \in SeqsUpTo(ValidBinaryTokens, MaxArgs) :
        \E architectures \in SeqsUpTo(ValidArchTokens, MaxArgs - Len(binaries)) :
            /\ buildF = BuildFrame(binaries, architectures, "dev", "metallb")
            /\ sel = [fn |-> "build", binaries |-> binaries,
                       architectures |-> architectures]
    /\ pushF = NoFrame
    /\ multiF = NoFrame
    /\ relF = NoFrame
    /\ log = <<>>
    /\ layoutRuns = <<>>
    /\ dirs = NoTree
    /\ umask = 18        \* 0o022
    /\ repo = Repo(<<>>, "v0.9.3-4-g1a2b3c4", "main", [b \in {"main"} |-> MainTree])
    /\ printed = <<>>
    /\ artifacts = NoArtifacts
    /\ ret = NoRet

NextBuildArgs ==
    \/ BuildCheck
    \/ BuildMakeDirs
    \/ BuildDescribe
    \/ BuildRevParse
    \/ BuildGo
    \/ BuildDocker

SpecBuildArgs == InitBuildArgs /\ [][NextBuildArgs]_vars

----------------------------------------------------------------------------
(* Builds and pushes over build trees earlier runs left behind *)

\* a build tree holding exactly the given cells, made under umask 0o022
TreeOfCells(cells) ==
    [p \in AllPaths |->
        IF p = "build" /\ cells # {} THEN 493
        ELSE IF \E c \in cells : p = ArchPath(c[1]) THEN 493
        ELSE IF \E c \in cells : p = CellPath(c[1], c[2]) THEN 488
        ELSE Absent]

\* nothing, every cell, or for some architectures all or two of the binaries
LayoutTrees ==
    {TreeOfCells(A \X B) :
        A \in SUBSET all_architectures,
        B \in {all_binaries, {"controller-pool", "speaker-local"}}}

\* umasks of the invoking shell: 0o022, 0o027, 0o077
Umasks == {18, 23, 63}

\* command lines: the defaults, one cell, two cells, everything
LayoutSelectors ==
    {<<<<>>, <<>>>>,
     <<<<"speaker-local">>, <<"arm">>>>,
     <<<<"speaker-local">>, <<"s390x", "arm">>>>,
     <<<<"all">>, <<"all">>>>}

InitLayout ==
    /\ task \in {"build", "push"}
    /\ \E s \in LayoutSelectors :
        \/ /\ task = "build"
           /\ pc = "build_check"
           /\ buildF = BuildFrame(s[1], s[2], "dev", "metallb")
           /\ pushF = NoFrame
        \/ /\ task = "push"
           /\ pc = "push_check"
           /\ buildF = NoFrame
           /\ pushF = PushFrame(s[1], s[2], "dev", "metallb")
    /\ multiF = NoFrame
    /\ relF = NoFrame
    /\ log = <<>>
    /\ layoutRuns = <<>>
    /\ dirs \in LayoutTrees
    /\ umask \in Umasks
    /\ repo = Repo(<<>>, "v0.9.3-4-g1a2b3c4", "main", [b \in {"main"} |-> MainTree])
    /\ printed = <<>>
    /\ artifacts = NoArtifacts
    /\ sel = NoSel
    /\ ret = NoRet

NextLayout ==
    \/ BuildCheck
    \/ BuildMakeDirs
    \/ BuildDescribe
    \/ BuildRevParse
    \/ BuildGo
    \/ BuildDocker
    \/ PushCheck
    \/ PushCallBuild
    \/ PushDocker

SpecLayout == InitLayout /\ [][NextLayout]_vars

----------------------------------------------------------------------------
(* release run twice from the same checkout, with skip_release_notes set   *)
(* one time and not the other.  sel keeps the checkout the runs start      *)
(* from and, once the first run is over, where that run ended.             *)

\* versions for the two runs: new releases, patch releases, one with a
\* pre-release, and arguments semver rejects
TwiceArgs ==
    {<<"1", ".", "0", ".", "0">>, <<"0", ".", "1", ".", "0">>,
     <<"1", ".", "0", ".", "2">>, <<"0", ".", "0", ".", "1">>,
     <<"1", ".", "1", ".", "0", "-", "r", "c", ".", "1">>,
     <<"1", ".", "0">>, <<"v", "1", ".", "0", ".", "0">>}

InitReleaseTwice ==
    /\ task = "release"
    /\ pc = "rel_status"
    /\ \E version \in TwiceArgs, skip \in BOOLEAN :
           relF = ReleaseFrame(version, skip)
    /\ \E status \in StatusOutputs, tips \in ReleaseTips :
           repo = Repo(status, "v0.9.3-4-g1a2b3c4", "main", tips)
    /\ sel = [fn |-> "release", run |-> 1, checkout |-> repo, first |-> NoFrame]
    /\ buildF = NoFrame
    /\ pushF = NoFrame
    /\ multiF = NoFrame
    /\ log = <<>>
    /\ layoutRuns = <<>>
    /\ dirs = NoTree
    /\ umask = 18        \* 0o022
    /\ printed = <<>>
    /\ artifacts = NoArtifacts
    /\ ret = NoRet

\* the second invocation: same version, same checkout, the flag the other
\* way round
ReleaseAgain ==
    /\ task = "release"
    /\ ~Running
    /\ sel.fn = "release" /\ sel.run = 1
    /\ sel' = [sel EXCEPT !.run = 2,
                          !.first = [active |-> TRUE, pc |-> pc, log |-> log,
                                     repo |-> repo, relF |-> relF]]
    /\ pc' = "rel_status"
    /\ log' = <<>>
    /\ repo' = sel.checkout
    /\ relF' = ReleaseFrame(relF.arg, ~relF.skip_release_notes)
    /\ UNCHANGED <<task, buildF, pushF, multiF, layoutRuns, dirs, umask,
                   printed, artifacts, ret>>

NextReleaseTwice ==
    \/ ReleaseStatus
    \/ ReleaseParse
    \/ ReleaseCheckout
    \/ ReleasePatchSpeaker
    \/ ReleasePatchController
    \/ ReleasePatchVersion
    \/ ReleaseGofmt
    \/ ReleaseCommit
    \/ ReleaseCheckoutMain
    \/ ReleaseAgain

SpecReleaseTwice == InitReleaseTwice /\ [][NextReleaseTwice]_vars

----------------------------------------------------------------------------
(* Every run of the command line *)

Init == InitBuild \/ InitRelease

Next == NextBuild \/ NextRelease

Spec == Init /\ [][Next]_vars

----------------------------------------------------------------------------
(* Claims *)

Tools(l) == {l[i].cmd.tool : i \in 1..Len(l)}

Dirty == Strip(repo.status) # <<>>

\* C1: when git status --porcelain prints anything, release ends with the
\* Exit error as soon as the status query has succeeded, for every version
\* argument, and nothing but that query is ever run: no checkout, no
\* branch, no patched file and no commit.
C1_DirtyTreeNoMutation ==
    (task = "release" /\ Dirty) =>
        /\ Tools(log) \subseteq {"git status --porcelain"}
        /\ Len(log) <= 1
        /\ (Len(log) = 1 /\ log[1].ok) => pc = "aborted"
        /\ pc \in {"rel_status", "aborted", "failed"}
        /\ repo.head = "main"
        /\ repo.tips \in ReleaseTips
        /\ repo.tree = MainTree
        /\ repo.commits = <<>>

\* C1 witness: a release of a well-formed version aborted on a dirty tree
C1_Witness ==
    /\ pc = "aborted"
    /\ Dirty
    /\ relF.arg = <<"1", ".", "0", ".", "0">>
    /\ log = <<Ran(GitStatusCmd, TRUE)>>

\* C2: for a version a.b.c on a clean tree, release reaches the branch step,
\* and the command it issues there is "git checkout -b va.b" when c = 0 and
\* "git checkout va.b" when c # 0; the first creates the branch when it
\* succeeds, the second leaves the set of branches as it was.
C2_BranchDecision ==
    [][/\ (pc = "rel_parse" /\ relF.arg \in PlainVersions) => pc' = "rel_checkout"
       /\ pc = "rel_checkout" =>
            /\ Len(log') = 2
            /\ \A a \in VersionNums, b \in VersionNums, c \in VersionNums :
                   relF.arg = Dotted(a, b, c) =>
                       LET name == "v" \o ToString(a) \o "." \o ToString(b) IN
                       /\ log'[2].cmd =
                              [tool |-> IF c = 0 THEN "git checkout -b"
                                        ELSE "git checkout",
                               branch |-> name]
                       /\ c # 0 => DOMAIN repo'.tips = DOMAIN repo.tips
                       /\ (c # 0 /\ log'[2].ok) =>
                              name \in DOMAIN repo.tips /\ repo'.head = name
                       /\ (c = 0 /\ log'[2].ok) =>
                              /\ name \notin DOMAIN repo.tips
                              /\ DOMAIN repo'.tips = DOMAIN repo.tips \cup {name}
                              /\ repo'.head = name
       /\ pc # "rel_checkout" => DOMAIN repo'.tips = DOMAIN repo.tips
      ]_vars

\* C2 witness: 1.0.2 checked out the existing v1.0 after 1.0.0 could have
\* created it; here the patch release has switched to the branch
C2_Witness ==
    /\ relF.arg = <<"1", ".", "0", ".", "2">>
    /\ Len(log) = 2
    /\ log[2] = Ran([tool |-> "git checkout", branch |-> "v1.0"], TRUE)
    /\ repo.head = "v1.0"

UnknownIn(tokens, known) ==
    \E i \in 1..Len(tokens) : tokens[i] \notin known \cup {"all"}

\* the selectors about to be resolved hold a token that is neither a known
\* name nor "all"
BadSelector ==
    \/ /\ pc = "build_check"
       /\ \/ UnknownIn(buildF.binaries, all_binaries)
          \/ UnknownIn(buildF.architectures, all_architectures)
    \/ /\ pc = "push_check"
       /\ \/ UnknownIn(pushF.binaries, all_binaries)
          \/ UnknownIn(pushF.architectures, all_architectures)
    \/ pc = "multi_check" /\ UnknownIn(multiF.binaries, all_binaries)

Range(seq) == {seq[i] : i \in 1..Len(seq)}

\* C3: when a selector of build, push or push_multiarch holds an unknown
\* token, the resolution step ends the process with status 1 and a printed
\* report; the selector with the unknown token is not rebound to a resolved
\* list, no directory is created, no command is run, and the process takes
\* no further step.
C3_UnknownTokenExits ==
    [][/\ BadSelector =>
            /\ pc' = "exited"
            /\ ExitCode' = 1
            /\ Len(printed') = 2
            /\ log' = <<>>
            /\ layoutRuns' = <<>>
            /\ dirs \in InitTrees /\ dirs' = dirs
            /\ artifacts' = NoArtifacts
            /\ (pc = "build_check" /\ UnknownIn(buildF.binaries, all_binaries))
                   => buildF' = buildF
            /\ (pc = "build_check" /\ UnknownIn(buildF.architectures, all_architectures))
                   => buildF'.architectures = buildF.architectures
            /\ (pc = "push_check" /\ UnknownIn(pushF.binaries, all_binaries))
                   => pushF' = pushF
            /\ (pc = "push_check" /\ UnknownIn(pushF.architectures, all_architectures))
                   => pushF'.architectures = pushF.architectures
            /\ pc = "multi_check" => multiF' = multiF /\ pushF' = NoFrame
       /\ pc = "exited" => FALSE
      ]_vars

\* C3 witness: build -a arm -a mips ended by the architecture resolver
C3_Witness ==
    /\ pc = "exited"
    /\ task = "build"
    /\ buildF.architectures = <<"arm", "mips">>
    /\ printed[1] = "unknown architecture mips"
    /\ log = <<>>

\* every successful command before position n has left its artifact
ArtifactsKept(l, n, art) ==
    \A i \in 1..(n - 1) :
        /\ l[i].cmd.tool = "go build" => l[i].cmd.out \in art.files
        /\ l[i].cmd.tool = "docker build" => l[i].cmd.image \in art.images
        /\ l[i].cmd.tool = "docker push" => l[i].cmd.image \in art.registry

\* C4: in build and push (and push_multiarch, which runs push) a command
\* that exits non-zero is the last command of the run: the run is over
\* (status 1), takes no further step, and that step removed no directory
\* and no artifact; what the earlier commands built is still there.
C4_FailFast ==
    [][/\ \A i \in 1..Len(log') : ~log'[i].ok => i = Len(log') /\ pc' = "failed"
       /\ pc' = "failed" =>
            /\ ExitCode' = 1
            /\ log' = Append(log, log'[Len(log')])
            /\ ~log'[Len(log')].ok
            /\ artifacts' = artifacts
            /\ dirs' = dirs
            /\ ArtifactsKept(log', Len(log'), artifacts')
       /\ pc = "failed" => FALSE
       /\ \A p \in AllPaths : dirs[p] # Absent => dirs'[p] = dirs[p]
       /\ artifacts.files \subseteq artifacts'.files
       /\ artifacts.images \subseteq artifacts'.images
       /\ artifacts.registry \subseteq artifacts'.registry
      ]_vars

\* C4 witness: a push whose second cell failed at docker push, the first
\* cell's image still in the registry
C4_Witness ==
    /\ pc = "failed"
    /\ task = "push"
    /\ Len(log) = 10
    /\ log[10].cmd.tool = "docker push"
    /\ Cardinality(artifacts.registry) = 1
    /\ Cardinality(artifacts.images) = 2

Count(l, P(_)) == Cardinality({i \in 1..Len(l) : P(l[i])})

\* C5: a build that ran to its end issued, for each pair (b, a) of its
\* resolved binaries and architectures, exactly one go build writing
\* build/<a>/<b>/<b> and exactly one docker build of <user>/<b>:<tag>-<a>
\* from build/<a>/<b>, and no compile or image build besides these.
C5_BuildMatrix ==
    (task = "build" /\ pc = "done") =>
        LET B == Range(buildF.binaries)
            A == Range(buildF.architectures)
            IsGo(e) == e.cmd.tool = "go build"
            IsDocker(e) == e.cmd.tool = "docker build"
        IN  /\ \A e \in Range(log) : e.ok
            /\ Count(log, IsGo) = Cardinality(A) * Cardinality(B)
            /\ Count(log, IsDocker) = Cardinality(A) * Cardinality(B)
            /\ Len(log) = 2 + 2 * Cardinality(A) * Cardinality(B)
            /\ \A a \in A, b \in B :
                LET Compiles(e) ==
                        /\ IsGo(e)
                        /\ e.cmd.out = "build/" \o a \o "/" \o b \o "/" \o b
                    Images(e) ==
                        /\ IsDocker(e)
                        /\ e.cmd.image = buildF.docker_user \o "/" \o b \o ":"
                                             \o buildF.tag \o "-" \o a
                        /\ e.cmd.context = "build/" \o a \o "/" \o b
                IN  Count(log, Compiles) = 1 /\ Count(log, Images) = 1

\* C5 witness: build of all four binaries for amd64 and arm, finished
C5_Witness ==
    /\ task = "build"
    /\ pc = "done"
    /\ Len(buildF.binaries) = 4
    /\ buildF.architectures = <<"amd64", "arm">>
    /\ Len(log) = 18

ImageTag(user, b, tag, a) == user \o "/" \o b \o ":" \o tag \o "-" \o a

\* entry i of the log is the successful compile of (b, a), entry i + 1 the
\* successful image build of the same pair
BuiltAt(l, i, user, b, tag, a) ==
    /\ i >= 1
    /\ l[i].cmd.tool = "go build"
    /\ l[i].cmd.out = "build/" \o a \o "/" \o b \o "/" \o b
    /\ l[i].cmd.env.GOARCH = a
    /\ l[i].ok
    /\ l[i + 1].cmd.tool = "docker build"
    /\ l[i + 1].cmd.image = ImageTag(user, b, tag, a)
    /\ l[i + 1].cmd.context = "build/" \o a \o "/" \o b
    /\ l[i + 1].ok

PushResolved == pushF.active /\ pc \notin {"push_check", "multi_check", "exited"}

InBuild ==
    pc \in {"build_check", "build_mkdirs", "build_describe", "build_revparse",
            "build_go", "build_docker"}

\* C6: in a push, the build called for a cell is given that one binary and
\* that one architecture; every docker push in the log names a pair of the
\* matrix, comes directly after the successful go build and docker build of
\* that same pair (same tag) and is the only push of its tag; a compile is
\* followed by nothing but its own image build and push before the next
\* compile; and a finished push has pushed every pair of the matrix once.
C6_PushPerCell ==
    (task \in {"push", "push_multiarch"} /\ PushResolved) =>
        LET A == Range(pushF.architectures)
            B == Range(pushF.binaries)
            user == pushF.docker_user
            tag == pushF.tag
            IsPush(e) == e.cmd.tool = "docker push"
            n == Len(log)
        IN  /\ InBuild =>
                /\ Range(buildF.binaries) = {pushF.binaries[pushF.bi]}
                /\ Range(buildF.architectures) = {pushF.architectures[pushF.ai]}
                /\ Len(buildF.binaries) = 1 /\ Len(buildF.architectures) = 1
            /\ \A i \in 1..n : IsPush(log[i]) =>
                /\ i >= 3
                /\ \E a \in A, b \in B :
                    /\ log[i].cmd.image = ImageTag(user, b, tag, a)
                    /\ BuiltAt(log, i - 2, user, b, tag, a)
                /\ \A j \in 1..n : (IsPush(log[j]) /\ j # i) =>
                       log[j].cmd.image # log[i].cmd.image
            /\ \A i \in 1..n : log[i].cmd.tool = "go build" =>
                /\ i + 1 <= n => log[i + 1].cmd.tool = "docker build"
                /\ i + 2 <= n => IsPush(log[i + 2])
            /\ (pc = "done" \/ pc = "multi_manifest") =>
                /\ \A a \in A, b \in B :
                       LET Mine(e) == IsPush(e) /\ e.ok
                                      /\ e.cmd.image = ImageTag(user, b, tag, a)
                       IN  Count(log, Mine) = 1
                /\ Count(log, IsPush) = Cardinality(A) * Cardinality(B)

\* C6 witness: push of two binaries for arm64 finished, five commands a cell
C6_Witness ==
    /\ task = "push"
    /\ pc = "done"
    /\ pushF.binaries = <<"controller-pool", "speaker-local">>
    /\ pushF.architectures = <<"arm64">>
    /\ Len(log) = 10
    /\ log[10].cmd.image = "metallb/speaker-local:dev-arm64"

\* C7: a push_multiarch that ran to its end invoked the manifest tool once
\* for each selected binary b and not otherwise, with platforms
\* linux/<arch> for the five known architectures, template
\* <user>/<b>:<tag>-ARCH and target <user>/<b>:<tag>; each image
\* <user>/<b>:<tag>-<arch> was pushed successfully earlier in the log.
C7_ManifestPerBinary ==
    (task = "push_multiarch" /\ pc = "done") =>
        LET user == multiF.docker_user
            tag == multiF.tag
            IsManifest(e) == e.cmd.tool = "manifest-tool push from-args"
        IN  /\ Count(log, IsManifest) = Len(multiF.binaries)
            /\ \A b \in Range(multiF.binaries) :
                \E i \in 1..Len(log) :
                    /\ log[i] =
                         Ran([tool |-> "manifest-tool push from-args",
                              platforms |-> "linux/amd64,linux/arm,linux/arm64,linux/ppc64le,linux/s390x",
                              template |-> user \o "/" \o b \o ":" \o tag \o "-ARCH",
                              target |-> user \o "/" \o b \o ":" \o tag], TRUE)
                    /\ \A j \in 1..Len(log) :
                           (IsManifest(log[j]) /\ log[j].cmd.target = log[i].cmd.target)
                               => j = i
                    /\ \A a \in {"amd64", "arm", "arm64", "ppc64le", "s390x"} :
                           \E j \in 1..(i - 1) :
                               log[j] = Ran([tool |-> "docker push",
                                             image |-> ImageTag(user, b, tag, a)], TRUE)

\* C7 witness: push_multiarch of two binaries finished with two manifests
C7_Witness ==
    /\ task = "push_multiarch"
    /\ pc = "done"
    /\ multiF.binaries = <<"controller-pool", "speaker-acnodal">>
    /\ Len(log) = 52
    /\ artifacts.manifests = {"metallb/controller-pool:dev", "metallb/speaker-acnodal:dev"}

\* the known names in the order Python sorts them
BinariesInOrder ==
    <<"controller-acnodal", "controller-pool", "speaker-acnodal", "speaker-local">>
ArchitecturesInOrder == <<"amd64", "arm", "arm64", "ppc64le", "s390x">>

FullList == IF sel.fn = "_check_binaries" THEN BinariesInOrder ELSE ArchitecturesInOrder

Called == pc \in {"returned", "exited"}

HasUnknown == UnknownIn(sel.tokens, Range(FullList))

\* C8 as stated: every input holding "all" makes the resolver return the
\* full enumeration, whatever the other tokens are.
C8_AllRegardless ==
    (Called /\ "all" \in Range(sel.tokens)) =>
        ret = [kind |-> "return", value |-> FullList]

\* C8, amended: an input holding "all" and otherwise only known names makes
\* the resolver return the full enumeration; an input holding "all" and an
\* unknown token makes it end the process with status 1, returning nothing.
C8_AllWithoutUnknown ==
    (Called /\ "all" \in Range(sel.tokens)) =>
        /\ ~HasUnknown => ret = [kind |-> "return", value |-> FullList]
        /\ HasUnknown => ret = [kind |-> "exit", code |-> 1] /\ pc = "exited"

\* C8 witness: "all" between two known names gave the four binaries
C8_Witness ==
    /\ pc = "returned"
    /\ sel = [fn |-> "_check_binaries",
               tokens |-> <<"speaker-local", "all", "controller-pool">>]
    /\ ret.value = BinariesInOrder

\* C9: on an empty token list _check_binaries returns the four known
\* binaries and _check_architectures returns the list holding amd64 alone.
C9_EmptySelector ==
    (Called /\ sel.tokens = <<>>) =>
        /\ sel.fn = "_check_binaries" =>
               ret = [kind |-> "return", value |-> BinariesInOrder]
        /\ sel.fn = "_check_architectures" =>
               ret = [kind |-> "return", value |-> <<"amd64">>]

\* C9 witness: the architecture resolver returned from an empty list
C9_Witness ==
    /\ pc = "returned"
    /\ sel = [fn |-> "_check_architectures", tokens |-> <<>>]
    /\ ret.value = <<"amd64">>

\* where a name stands in the full sorted list; 0 for any other token
Place(x) ==
    IF \E i \in 1..Len(FullList) : FullList[i] = x
    THEN CHOOSE i \in 1..Len(FullList) : FullList[i] = x
    ELSE 0

\* C10: a list a resolver returns is non-empty, holds only known names
\* (so never "all"), and its names stand in strictly ascending sorted
\* order, hence without repetition.
C10_ResultWellFormed ==
    (pc = "returned") =>
        /\ ret.kind = "return"
        /\ Len(ret.value) >= 1
        /\ \A i \in 1..Len(ret.value) :
               /\ Place(ret.value[i]) >= 1
               /\ ret.value[i] # "all"
        /\ \A i \in 1..Len(ret.value), j \in 1..Len(ret.value) :
               i < j => Place(ret.value[i]) < Place(ret.value[j])

\* C10 witness: names given out of order and twice came back sorted, once
C10_Witness ==
    /\ pc = "returned"
    /\ sel.tokens = <<"s390x", "arm", "s390x">>
    /\ ret.value = <<"arm", "s390x">>

\* the names of full that are selected by a set of typed tokens, in the
\* order of full; fallback when no token was typed
RECURSIVE Pick(_, _)
Pick(full, names) ==
    IF Len(full) = 0 THEN <<>>
    ELSE (IF full[1] \in names THEN <<full[1]>> ELSE <<>>) \o Pick(Tail(full), names)

FromTokenSet(full, tokens, fallback) ==
    IF "all" \in tokens THEN full
    ELSE IF tokens = {} THEN fallback
    ELSE Pick(full, tokens)

\* the k-th command of a build over architectures A and binaries B
CommandAt(k, A, B) ==
    IF k = 1 THEN [tool |-> "git describe --dirty --always"]
    ELSE IF k = 2 THEN [tool |-> "git rev-parse --abbrev-ref HEAD"]
    ELSE LET cell == (k - 3) \div 2
             a == A[(cell \div Len(B)) + 1]
             b == B[(cell % Len(B)) + 1]
         IN  IF (k - 3) % 2 = 0
             THEN [tool |-> "go build",
                   target |-> "build/" \o a \o "/" \o b \o "/" \o b]
             ELSE [tool |-> "docker build",
                   target |-> "metallb/" \o b \o ":dev-" \o a]

\* what CommandAt compares of a logged command
Brief(cmd) ==
    IF cmd.tool = "go build" THEN [tool |-> cmd.tool, target |-> cmd.out]
    ELSE IF cmd.tool = "docker build" THEN [tool |-> cmd.tool, target |-> cmd.image]
    ELSE [tool |-> cmd.tool]

\* C11: the lists a build resolves, and with them every command it issues
\* and the order of the commands, are fixed by the sets of tokens typed:
\* the order of the tokens and their repetition change nothing, so two
\* valid command lines with the same token sets run the same commands.
C11_OrderIndependent ==
    (sel.fn = "build" /\ pc # "build_check") =>
        LET B == FromTokenSet(BinariesInOrder, Range(sel.binaries), BinariesInOrder)
            A == FromTokenSet(ArchitecturesInOrder, Range(sel.architectures),
                              <<"amd64">>)
        IN  /\ buildF.binaries = B
            /\ buildF.architectures = A
            /\ Len(log) <= 2 + 2 * Len(A) * Len(B)
            /\ \A k \in 1..Len(log) : Brief(log[k].cmd) = CommandAt(k, A, B)
            /\ pc = "done" => Len(log) = 2 + 2 * Len(A) * Len(B)

\* C11 witness: binaries typed out of order, one of them twice, built in
\* sorted order, once each
C11_Witness ==
    /\ pc = "done"
    /\ sel.fn = "build"
    /\ sel.binaries = <<"speaker-local", "controller-pool", "speaker-local">>
    /\ Len(log) = 6
    /\ log[3].cmd.out = "build/amd64/controller-pool/controller-pool"
    /\ log[5].cmd.out = "build/amd64/speaker-local/speaker-local"

\* the arguments that are semantic versions: a.b.c, optionally followed by
\* a pre-release, by build metadata, or by both
SemanticVersions ==
    PlainVersions
    \cup {v \o x : v \in PlainVersions,
                   x \in {<<"-", "r", "c", ".", "1">>, <<"+", "b", "7">>,
                          <<"-", "r", "c", "+", "b">>}}

\* C12: a version argument that is not a semantic version makes release
\* end in ValueError at the parse step, on a clean tree; up to and after
\* that end the only command run is git status --porcelain, and the
\* checkout has no new branch, no other HEAD, no patched file and no
\* commit.  A semantic version passes the parse step.
C12_MalformedVersion ==
    [][/\ (pc = "rel_parse" /\ relF.arg \notin SemanticVersions) =>
            /\ pc' = "raised"
            /\ ExitCode' = 1
            /\ ~Dirty
       /\ (pc = "rel_parse" /\ relF.arg \in SemanticVersions) => pc' = "rel_checkout"
       /\ pc = "raised" => FALSE
       /\ (task = "release" /\ relF.arg \notin SemanticVersions) =>
            /\ Len(log') <= 1
            /\ Tools(log') \subseteq {"git status --porcelain"}
            /\ repo' = repo
            /\ repo.head = "main" /\ repo.tree = MainTree /\ repo.commits = <<>>
            /\ pc' \in {"rel_parse", "raised", "aborted", "failed"}
      ]_vars

\* C12 witness: release 1.0 on a clean tree, ended by the parse
C12_Witness ==
    /\ pc = "raised"
    /\ relF.arg = <<"1", ".", "0">>
    /\ ~Dirty
    /\ log = <<Ran(GitStatusCmd, TRUE)>>
    /\ repo.head = "main"


----------------------------------------------------------------------------
\* the cells of the full enumerations, spelled as lines 15-23 spell them
EveryCellPath ==
    {"build/" \o a \o "/" \o b :
        a \in {"amd64", "arm", "arm64", "ppc64le", "s390x"},
        b \in {"controller-pool", "controller-acnodal", "speaker-acnodal",
               "speaker-local"}}

\* C13: layout creation is idempotent.  From any build tree (no cell, some
\* cells or all cells present) a call of _make_build_dirs raises nothing,
\* keeps every directory that was there as it was, and leaves a directory
\* build/<arch>/<binary> for every pair of the full enumerations whatever
\* the selectors were; a call right after it raises nothing and changes
\* nothing, and so does every later call of the same run.
C13_LayoutIdempotent ==
    [][pc = "build_mkdirs" =>
        /\ pc' = "build_describe"
        /\ \A p \in EveryCellPath : dirs'[p] # Absent
        /\ \A p \in DOMAIN dirs : dirs[p] # Absent => dirs'[p] = dirs[p]
        /\ \A parentMode \in {511, MakedirsMode} :
               _make_build_dirs(dirs', parentMode, umask) =
                   [raised |-> FALSE, tree |-> dirs']
        /\ layoutRuns # <<>> => dirs' = dirs
      ]_vars

\* a push of two cells has laid the tree out twice, over a tree that held
\* two binaries of one architecture: the second call found every cell
C13_Witness ==
    /\ task = "push"
    /\ Len(layoutRuns) = 2
    /\ pc = "build_describe"
    /\ umask = 63
    /\ dirs["build/arm/speaker-local"] = 488
    /\ dirs["build/arm/speaker-acnodal"] = 448
    /\ dirs["build/s390x/speaker-local"] = 448
    /\ dirs["build/s390x"] \in {448, 488}
    /\ dirs["build"] = 493

----------------------------------------------------------------------------
\* the permission bits of a mode, by class
OwnerBits(mode) == (mode \div 64) % 8
GroupBits(mode) == (mode \div 8) % 8
OtherBits(mode) == mode % 8

\* the directories a step has created
CreatedBy(before, after) ==
    {p \in DOMAIN after : before[p] = Absent /\ after[p] # Absent}

\* C14 as stated: every directory that layout creation creates carries
\* owner read/write/execute only, with no permission bit for group or others.
C14_OwnerOnly ==
    [][pc = "build_mkdirs" =>
        \A p \in CreatedBy(dirs, dirs') :
            /\ OwnerBits(dirs'[p]) = 7
            /\ GroupBits(dirs'[p]) = 0
            /\ OtherBits(dirs'[p]) = 0
      ]_vars

\* 0o750 less the umask, for the umasks 0o022, 0o027 and 0o077
CellModeUnder == (18 :> 488) @@ (23 :> 488) @@ (63 :> 448)
\* 0o777 less the same umasks
OpenModeUnder == (18 :> 493) @@ (23 :> 488) @@ (63 :> 448)

\* C14, amended: every cell directory build/<arch>/<binary> that layout
\* creation creates gets mode 0o750 less the umask: owner rwx, group read and
\* execute unless the umask takes them away, never group write, nothing for
\* others.  The directories build and build/<arch> it creates on the way get
\* either that mode or 0o777 less the umask.
C14_CellMode ==
    [][pc = "build_mkdirs" =>
        \A p \in CreatedBy(dirs, dirs') :
            IF p \in EveryCellPath
            THEN /\ dirs'[p] = CellModeUnder[umask]
                 /\ OwnerBits(dirs'[p]) = 7
                 /\ GroupBits(dirs'[p]) \in {0, 5}
                 /\ OtherBits(dirs'[p]) = 0
            ELSE dirs'[p] \in {CellModeUnder[umask], OpenModeUnder[umask]}
      ]_vars

\* under umask 0o027 the layout has created build/ppc64le and a cell below
\* it, both group-readable
C14_Witness ==
    /\ pc = "build_describe"
    /\ umask = 23
    /\ Len(layoutRuns) = 1
    /\ dirs["build/ppc64le"] = 488
    /\ dirs["build/ppc64le/speaker-local"] = 488
    /\ GroupBits(dirs["build/ppc64le/speaker-local"]) = 5

----------------------------------------------------------------------------
\* positions of the compile commands in a log
Compiles(l) == {i \in 1..Len(l) : l[i].cmd.tool = "go build"}

\* C15 as stated: in every build invocation and in every push invocation
\* layout creation runs exactly once, and before the first compile.
C15_LayoutOnce ==
    (task \in {"build", "push"}) =>
        /\ Len(layoutRuns) <= 1
        /\ Compiles(log) # {} => layoutRuns = <<0>>

\* C15, amended: a build invocation runs layout creation exactly once, as
\* its first step after resolving the selectors, so before its describe
\* query and its first compile.  A push does not run it itself: each build
\* that push calls for a cell runs it, so a push runs it once per cell it
\* reaches, each time before that cell's commands, and the first run still
\* precedes the first compile.
C15_LayoutPerBuild ==
    /\ Compiles(log) # {} => (layoutRuns # <<>> /\ layoutRuns[1] = 0)
    /\ task = "build" =>
           /\ Len(layoutRuns) <= 1
           /\ pc \in {"build_describe", "build_revparse", "build_go",
                      "build_docker", "done", "failed"} => layoutRuns = <<0>>
    /\ task \in {"push", "push_multiarch"} =>
           /\ \A k \in 1..Len(layoutRuns) : layoutRuns[k] = 5 * (k - 1)
           /\ \A i \in Compiles(log) :
                  Cardinality({k \in 1..Len(layoutRuns) :
                                  layoutRuns[k] = i - 3}) = 1
           /\ Len(layoutRuns) \in
                  {Cardinality(Compiles(log)), Cardinality(Compiles(log)) + 1}
           /\ (task = "push" /\ pc = "done") =>
                  Len(layoutRuns) = Len(pushF.binaries) * Len(pushF.architectures)

\* a push of two binaries for one architecture has finished: the layout ran
\* before the first command and again before the sixth
C15_Witness ==
    /\ task = "push"
    /\ pc = "done"
    /\ Len(pushF.binaries) = 2
    /\ Len(pushF.architectures) = 1
    /\ layoutRuns = <<0, 5>>
    /\ Compiles(log) = {3, 8}

----------------------------------------------------------------------------
\* the tools of a release in the order of lines 158-181; the second is
\* "git checkout -b" for a release with patch 0
ReleaseTools(new) ==
    <<"git status --porcelain",
      IF new THEN "git checkout -b" ELSE "git checkout",
      "perl -pi -e", "perl -pi -e", "perl -pi -e", "gofmt -w",
      "git commit -a -m", "git checkout">>

AllOk(l) == \A i \in 1..Len(l) : l[i].ok

\* C16: on a clean tree, with a well-formed version and every command
\* succeeding, release issues its steps once each and in this order: the
\* checkout of the release branch, the patch of the deployment manifest (its
\* speaker image line, then its controller image line), the patch of the
\* version file, gofmt on the version file, the commit, the checkout of main.
\* It then has ended normally with HEAD on main, main itself as it was, and
\* one new commit, holding the patched files, on branch v<major>.<minor>.
C16_ReleaseHappyPath ==
    (task = "release" /\ AllOk(log)) =>
        /\ Len(log) <= 8
        /\ \A k \in 1..Len(log) :
               \/ log[k].cmd.tool = ReleaseTools(TRUE)[k]
               \/ log[k].cmd.tool = ReleaseTools(FALSE)[k]
        /\ Len(log) = 8 <=> pc = "done"
        /\ pc = "done" =>
            LET branch == log[2].cmd.branch
                manifest == "deployments/metallb.yaml"
                versionFile == "internal/version/version.go"
            IN  /\ ~Dirty
                /\ relF.arg \in SemanticVersions
                /\ log[3].cmd.file = manifest /\ log[4].cmd.file = manifest
                /\ log[3].cmd.pattern = "image: metallb/speaker:.*"
                /\ log[4].cmd.pattern = "image: metallb/controller:.*"
                /\ log[5].cmd.file = versionFile /\ log[6].cmd.file = versionFile
                /\ log[8].cmd.branch = "main"
                /\ repo.head = "main"
                /\ repo.tree = MainTree /\ repo.tips["main"] = MainTree
                /\ Len(repo.commits) = 1
                /\ repo.commits[1].branch = branch
                /\ repo.commits[1].message = log[7].cmd.message
                /\ repo.tips[branch] = repo.commits[1].tree
                /\ repo.tips[branch].formatted
                /\ \A a \in VersionNums, b \in VersionNums, c \in VersionNums :
                       relF.arg = Dotted(a, b, c) =>
                           LET ver == ToString(a) \o "." \o ToString(b) \o "."
                                          \o ToString(c)
                           IN  /\ branch = "v" \o ToString(a) \o "." \o ToString(b)
                               /\ log[2].cmd.tool =
                                      ReleaseTools(c = 0)[2]
                               /\ log[7].cmd.message =
                                      "Automated update for release v" \o ver
                               /\ repo.tips[branch] =
                                      [speaker |-> "v" \o ver,
                                       controller |-> "v" \o ver,
                                       version |-> ver, formatted |-> TRUE]

\* release 1.0.0 has run to its end: eight commands, v1.0 created and
\* committed to, HEAD back on main
C16_Witness ==
    /\ task = "release"
    /\ pc = "done"
    /\ relF.arg = <<"1", ".", "0", ".", "0">>
    /\ Len(log) = 8
    /\ AllOk(log)
    /\ log[2].cmd = [tool |-> "git checkout -b", branch |-> "v1.0"]
    /\ repo.head = "main"
    /\ repo.tips["v1.0"].version = "1.0.0"

----------------------------------------------------------------------------
\* C17: a command of release that fails is the last command of the run:
\* release stops there (UnexpectedExit) and undoes nothing.  When the
\* failure comes after the checkout of the release branch has succeeded
\* (a patch, gofmt or the commit fails), HEAD is still on the release
\* branch, every patch that ran is still in the working tree, nothing is
\* committed, a branch that was created still exists, and git checkout main
\* has not been run.
C17_FailureStops ==
    (task = "release") =>
        /\ \A i \in 1..Len(log) : ~log[i].ok => (i = Len(log) /\ pc = "failed")
        /\ pc = "failed" => (Len(log) >= 1 /\ ~log[Len(log)].ok)
        /\ (pc = "failed" /\ Len(log) <= 2) =>
               /\ repo.head = "main"
               /\ repo.tree = MainTree
               /\ repo.commits = <<>>
        /\ (pc = "failed" /\ Len(log) \in 3..7) =>
               LET n == Len(log)
                   branch == log[2].cmd.branch
               IN  /\ log[2].cmd.tool \in {"git checkout", "git checkout -b"}
                   /\ log[2].ok
                   /\ repo.head = branch
                   /\ branch # "main"
                   /\ branch \in DOMAIN repo.tips
                   /\ repo.commits = <<>>
                   /\ \A i \in 1..n :
                          log[i].cmd # [tool |-> "git checkout", branch |-> "main"]
                   /\ n >= 4 => "image: metallb/speaker:" \o repo.tree.speaker
                                    = log[3].cmd.replacement
                   /\ n >= 5 => "image: metallb/controller:" \o repo.tree.controller
                                    = log[4].cmd.replacement
                   /\ n >= 6 => "version = \"" \o repo.tree.version \o "\""
                                    = log[5].cmd.replacement
                   /\ n = 6 => ~repo.tree.formatted
                   /\ n = 7 => repo.tree.formatted
                   /\ n >= 4 => repo.tree # repo.tips[branch]
        /\ (pc = "failed" /\ Len(log) = 8) =>
               /\ repo.head = log[2].cmd.branch
               /\ Len(repo.commits) = 1

\* the commit of release 1.0.0 has failed: HEAD is on v1.0, the three
\* patches and the formatting are in the working tree, nothing is committed
C17_Witness ==
    /\ task = "release"
    /\ pc = "failed"
    /\ Len(log) = 7
    /\ log[7].cmd.tool = "git commit -a -m"
    /\ ~log[7].ok
    /\ repo.head = "v1.0"
    /\ repo.tree = [speaker |-> "v1.0.0", controller |-> "v1.0.0",
                    version |-> "1.0.0", formatted |-> TRUE]
    /\ repo.tips["v1.0"] = MainTree
    /\ repo.commits = <<>>

----------------------------------------------------------------------------
\* C18: a build invocation runs git describe and git rev-parse once each,
\* as its first two commands and so before the first compile; every compile
\* embeds the two values those queries returned, the same for all cells;
\* the cells are walked architecture-major (all binaries of an architecture,
\* then the next architecture); and each compile is directly followed by
\* the image build of the same cell, which is issued only after that
\* compile has succeeded.
C18_BuildSequence ==
    (task = "build" /\ log # <<>>) =>
        LET A == buildF.architectures
            B == buildF.binaries
            n == Len(log)
            cell(k) == (k - 3) \div 2
            arch(k) == A[(cell(k) \div Len(B)) + 1]
            bin(k) == B[(cell(k) % Len(B)) + 1]
        IN  /\ log[1].cmd = [tool |-> "git describe --dirty --always"]
            /\ n >= 2 => log[2].cmd = [tool |-> "git rev-parse --abbrev-ref HEAD"]
            /\ n <= 2 + 2 * Len(A) * Len(B)
            /\ \A k \in 3..n :
                   /\ log[k - 1].ok
                   /\ IF (k - 3) % 2 = 0
                      THEN /\ log[k].cmd.tool = "go build"
                           /\ log[k].cmd.env.GOARCH = arch(k)
                           /\ log[k].cmd.out =
                                  "build/" \o arch(k) \o "/" \o bin(k) \o "/" \o bin(k)
                           /\ log[k].cmd.gitCommit = repo.describe
                           /\ log[k].cmd.gitBranch = repo.head
                           /\ log[k].cmd.gitCommit = log[3].cmd.gitCommit
                           /\ log[k].cmd.gitBranch = log[3].cmd.gitBranch
                      ELSE /\ log[k].cmd.tool = "docker build"
                           /\ log[k].cmd.context = "build/" \o arch(k) \o "/" \o bin(k)
                           /\ log[k].cmd.image =
                                  buildF.docker_user \o "/" \o bin(k) \o ":"
                                      \o buildF.tag \o "-" \o arch(k)
            /\ pc = "done" => (n = 2 + 2 * Len(A) * Len(B) /\ AllOk(log))

\* a build of all four binaries for two architectures, on a detached HEAD
\* with local changes, has finished: 18 commands, the last compile for the
\* second architecture with the same commit id as the first
C18_Witness ==
    /\ task = "build"
    /\ pc = "done"
    /\ Len(buildF.architectures) = 2
    /\ Len(buildF.binaries) = 4
    /\ Len(log) = 18
    /\ repo.head = "HEAD"
    /\ log[17].cmd.tool = "go build"
    /\ log[17].cmd.gitCommit = "1a2b3c4-dirty"
    /\ log[17].cmd.env.GOARCH = buildF.architectures[2]
    /\ log[3].cmd.env.GOARCH = buildF.architectures[1]

----------------------------------------------------------------------------
Manifests(l) == {i \in 1..Len(l) : l[i].cmd.tool = "manifest-tool push from-args"}

\* C19: push_multiarch issues no manifest command until the whole matrix has
\* been pushed: before any manifest command every command has succeeded and
\* every (binary, architecture) image of the run is in the registry, and
\* after it only manifest commands follow.  So when a compile, an image
\* build or a registry push fails, the manifest tool is not run at all, not
\* even for a binary whose own five images were all pushed.
C19_NoManifestBeforeAllPushed ==
    (task = "push_multiarch") =>
        LET user == multiF.docker_user
            tag == multiF.tag
            Upstream == {"git describe --dirty --always",
                         "git rev-parse --abbrev-ref HEAD",
                         "go build", "docker build", "docker push"}
        IN  /\ \A i \in Manifests(log) :
                /\ \A j \in 1..(i - 1) : log[j].ok
                /\ \A j \in (i + 1)..Len(log) : j \in Manifests(log)
                /\ \A b \in Range(multiF.binaries) :
                   \A a \in {"amd64", "arm", "arm64", "ppc64le", "s390x"} :
                       \E j \in 1..(i - 1) :
                           log[j] = Ran([tool |-> "docker push",
                                         image |-> ImageTag(user, b, tag, a)], TRUE)
            /\ (\E j \in 1..Len(log) : ~log[j].ok /\ log[j].cmd.tool \in Upstream) =>
                   /\ Manifests(log) = {}
                   /\ artifacts.manifests = {}
                   /\ pc = "failed"
            /\ artifacts.manifests # {} => Manifests(log) # {}

\* with two binaries the very last push, of the second binary for s390x,
\* has failed: the first binary has all five images in the registry, and no
\* manifest command has run
C19_Witness ==
    /\ task = "push_multiarch"
    /\ pc = "failed"
    /\ Len(multiF.binaries) = 2
    /\ Len(log) = 50
    /\ log[50].cmd.tool = "docker push"
    /\ ~log[50].ok
    /\ Cardinality(artifacts.registry) = 9
    /\ \A a \in all_architectures :
           ImageTag(multiF.docker_user, multiF.binaries[1], multiF.tag, a)
               \in artifacts.registry
    /\ Manifests(log) = {}

----------------------------------------------------------------------------
Min(a, b) == IF a < b THEN a ELSE b

\* a release frame without the flag
Flagless(f) ==
    [arg |-> f.arg, version |-> f.version, is_patch_release |-> f.is_patch_release]

\* C20: skip_release_notes has no effect on release.  Of two runs of
\* release with the same version from the same checkout, one with the flag
\* set and one without, whose commands have ended alike so far, the second
\* has issued exactly the commands the first issued at the same positions,
\* never more than the first, and once it is over it has issued all of them
\* and stands where the first ended: same way of ending, same exit status,
\* same checkout, same parsed version.
C20_SkipReleaseNotesIgnored ==
    (sel.fn = "release" /\ sel.run = 2) =>
        LET one == sel.first
            n == Len(log)
            m == Len(one.log)
            alike == \A k \in 1..Min(n, m) : log[k].ok = one.log[k].ok
        IN  /\ one.relF.arg = relF.arg
            /\ one.relF.skip_release_notes # relF.skip_release_notes
            /\ alike =>
                /\ n <= m
                /\ \A k \in 1..n : log[k] = one.log[k]
                /\ ~Running =>
                    /\ n = m
                    /\ pc = one.pc
                    /\ repo = one.repo
                    /\ Flagless(relF) = Flagless(one.relF)

\* both runs of release 1.0.0 went through all eight commands, the first
\* without the flag and the second with it
C20_Witness ==
    /\ sel.fn = "release" /\ sel.run = 2
    /\ pc = "done"
    /\ relF.skip_release_notes
    /\ ~sel.first.relF.skip_release_notes
    /\ relF.arg = <<"1", ".", "0", ".", "0">>
    /\ Len(log) = 8
    /\ log = sel.first.log
    /\ repo = sel.first.repo
====
